---- MODULE Spec2Model ----
(***************************************************************************)
(* Medibot-Web client scripts: the reminder / note / water handlers of the *)
(* page scripts (static/app.js and its sibling versions) talking to the    *)
(* backend over fetch().  Every handler is an async function: it runs to   *)
(* its next await, the request travels to the backend, the backend serves  *)
(* it, the response travels back, the handler resumes.  Each of these is   *)
(* one step, so requests of different handlers interleave freely.          *)
(*                                                                         *)
(* The repository holds four versions of the page script:                  *)
(*   "app"  static/app.js (= unnamed/part_000 lines 113-224)               *)
(*   "old"  unnamed/part_000 lines 1-110                                   *)
(*   "p1"   unnamed/part_001                                               *)
(*   "p2"   unnamed/part_002                                               *)
(* A page loads exactly one of them; `variant` says which.                 *)
(*                                                                         *)
(* static/service-worker.js is the offline fallback worker: its install,   *)
(* activate and fetch listeners, the network and the cache it reads.       *)
(***************************************************************************)
EXTENDS Integers, Sequences, FiniteSets, Bags, TLC

VARIABLES
    variant,            \* which version of the page script is loaded
    reminders,          \* backend: the reminder collection, in insertion order
    nextId,             \* backend: next reminder identifier to assign
    notes,              \* backend: the note collection
    remList,            \* page: rendered reminder list (#remList / #reminderList)
    noteList,           \* page: rendered note list (#noteList)
    deleteBtnDisabled,  \* page: deleteBtn.disabled
    shapes,             \* environment: the backend may answer a list request
                        \* with a body that lacks the list field
    tasks,              \* bag of the async handler invocations in flight
    ev,                 \* what the last step did (history)
    hist,               \* the ids whose succeeded completions are logged
    doneOK,             \* logged ids whose completeReminder call has succeeded
    failed,             \* some request failed or was refused so far (history)
    water,              \* backend: today's water count
    waterCount,         \* page: the number shown in #waterCount
    w0,                 \* the backend's water count when the page loaded (history)
    nInc,               \* increment clicks so far (history)
    nDone,              \* increment handlers that ran to their end (history)
    overlap,            \* an increment was started while another was in flight
    incReads,           \* the counts the read-then-write increments have read
    swState,            \* worker: "installing", "installed" or "active"
    cache,              \* Cache Storage: request key -> stored response or None
    srvVer,             \* network: the version of the content the backend serves
    swReqs,             \* worker: bag of the intercepted requests being answered
    swEv                \* what the worker's last step did (history)

remVars == <<reminders, nextId, notes, remList, noteList, deleteBtnDisabled,
             doneOK>>
waterVars == <<water, waterCount, w0, nInc, nDone, overlap, incReads>>

swVars == <<swState, cache, srvVer, swReqs, swEv>>

pageVars == <<variant, shapes, hist, tasks, ev, failed, remVars, waterVars>>

vars == <<pageVars, swVars>>

----------------------------------------------------------------------------
(* Bounds *)
MaxTasks == 2       \* handler invocations in flight at once
MaxRem == 1         \* reminders ever created
MaxNotes == 1       \* notes ever created
MaxInc == 3         \* water increments ever started
MaxStart == 1       \* largest water count the backend holds at page load
MaxFetch == 2       \* intercepted requests the worker is answering at once
MaxVer == 1         \* times the backend's content changes

Variants == {"app", "old", "p1", "p2"}

\* what the user can have typed in the fields
Names == {"", "a"}
Times == {"", "t"}
NoteTexts == {"", " ", "n"}

\* app/old render <li>name at time</li>; p1/p2 render a checkbox per entry
\* and have the delete-completed control
HasCheckbox(v) == v \in {"p1", "p2"}

\* String.prototype.trim on the values above
Trim(s) == IF s = " " THEN "" ELSE s

----------------------------------------------------------------------------
(* Handler invocations *)

NoResp == [ok |-> FALSE, list |-> <<>>, count |-> 0]

\* a handler that has just issued its request
Sent(k, a, n, t, aft) ==
    [kind |-> k, net |-> "sent", arg |-> a, name |-> n, time |-> t,
     resp |-> NoResp, after |-> aft]

\* loadReminders()/refreshRem() up to its first await: the GET is issued
LoadRem == Sent("loadRem", 0, "", "", doneOK)
LoadNotes == Sent("loadNotes", 0, "", "", {})

\* op: what the step was; kind: the handler it belongs to; msg: the text the
\* step wrote to a status element; refresh: the step issued a list refresh;
\* ids: for a rendering step, the logged completions that had succeeded when
\* its request was issued
NoEv == [op |-> "init", kind |-> "", msg |-> "", refresh |-> FALSE, ids |-> {}]

Event(o, k, m, r) == [NoEv EXCEPT !.op = o, !.kind = k, !.msg = m, !.refresh = r]

InFlight == BagToSet(tasks)

Quiescent == tasks = EmptyBag

HasFree == BagCardinality(tasks) < MaxTasks

\* the handler invocation t issues request / becomes u; t ends
Start(u) == tasks (+) SetToBag({u})
Become(t, u) == (tasks (-) SetToBag({t})) (+) SetToBag({u})
End(t) == tasks (-) SetToBag({t})

Served(t, r) == [t EXCEPT !.net = "served", !.resp = r]

\* create requests of kind k not yet served
RECURSIVE Copies(_)
Copies(S) == IF S = {} THEN 0
             ELSE LET t == CHOOSE x \in S : TRUE
                  IN  CopiesIn(t, tasks) + Copies(S \ {t})
PendingAdds(k) == Copies({t \in InFlight : t.kind = k /\ t.net = "sent"})

\* #waterCount before any script has written it
NoCount == 0 - 1

----------------------------------------------------------------------------
(* Rendering *)

\* an entry rendered without the "checked" attribute
RenderItem_Unchecked(v, r) ==
    IF HasCheckbox(v) THEN [r EXCEPT !.completed = FALSE]
    ELSE [id |-> 0, name |-> r.name, time |-> r.time, completed |-> FALSE]

\* one rendered entry: p1/p2 show checkbox (checked = completed, bound to the
\* id), time and name; app/old show only "name at time"
RenderItem(v, r) ==
    IF HasCheckbox(v) THEN r
    ELSE [id |-> 0, name |-> r.name, time |-> r.time, completed |-> FALSE]

RenderRem(v, list) == [i \in 1..Len(list) |-> RenderItem(v, list[i])]

HasCompleted(list) == \E i \in 1..Len(list) : list[i].completed

\* deleteBtn.disabled as computed by loadReminders of p2
BtnDisabled(list) ==
    LET hasAny == Len(list) > 0
        hasCompleted == HasCompleted(list)
    IN  ~hasAny \/ ~hasCompleted

\* a response with fewer entries than the list shows is dropped
Replace_KeepLonger(prev, new) == IF Len(new) < Len(prev) THEN prev ELSE new

\* the entries of the response added below the ones shown
Replace_Append(prev, new) == prev \o new

\* list.innerHTML = "" and one appendChild per entry of the response: the
\* list shown before is dropped whole
Replace(prev, new) == new

\* the list element emptied before the fetch is awaited
ListAfterFailedFetch_Cleared(prev) == <<>>

\* the rendered list after a fetch that rejected: the await throws before
\* the list element is touched
ListAfterFailedFetch(prev) == prev

----------------------------------------------------------------------------
(* Initial states: the page has loaded, the script's top level or its load *)
(* listener has run, and the first reads are in flight.  The reminder/note *)
(* handlers and the water handlers share no state, so they are explored    *)
(* separately: Init starts the list reads, InitWater the water read.       *)

\* nothing stored, nothing rendered; the page's markup, which is not part
\* of the scripts, decides whether the delete-completed control starts
\* disabled
Blank ==
    /\ reminders = <<>> /\ nextId = 1 /\ notes = <<>>
    /\ remList = <<>> /\ noteList = <<>>
    /\ deleteBtnDisabled \in BOOLEAN
    /\ ev = NoEv /\ doneOK = {} /\ failed = FALSE
    /\ waterCount = NoCount
    /\ nInc = 0 /\ nDone = 0 /\ overlap = FALSE /\ incReads = <<>>

\* refreshRem(); refreshNotes(); at the top level of app/old,
\* loadReminders() in the load listener of p1/p2
FirstListReads(v) ==
    SetToBag({Sent("loadRem", 0, "", "", {})} \cup
             (IF HasCheckbox(v) THEN {} ELSE {Sent("loadNotes", 0, "", "", {})}))

\* the worker is not part of the run
NoWorker ==
    /\ swState = "installing" /\ cache = [r \in {} |-> 0] /\ srvVer = 0
    /\ swReqs = EmptyBag /\ swEv = [op |-> "none"]

Init ==
    /\ Blank /\ NoWorker /\ shapes = FALSE
    /\ variant \in Variants
    /\ hist = {}
    /\ tasks = FirstListReads(variant)
    /\ water = 0 /\ w0 = 0

\* the versions with completeReminder, with the completions of the first
\* reminder created logged.  The delete-completed control
\* starts enabled: starting disabled only takes steps away (p1 never
\* enables it, p2 sets it at its first rendering).
InitHist ==
    /\ Blank /\ NoWorker /\ shapes = FALSE
    /\ ~deleteBtnDisabled
    /\ variant \in {"p1", "p2"}
    /\ hist = {1}
    /\ tasks = FirstListReads(variant)
    /\ water = 0 /\ w0 = 0

\* the init block of app/old, loadWater() in the load listener of p1/p2
InitWater ==
    /\ Blank /\ NoWorker /\ shapes = FALSE
    /\ variant \in Variants
    /\ hist = {}
    /\ tasks = SetToBag({Sent("loadWater", 0, "", "", {})})
    /\ water \in 0..MaxStart
    /\ w0 = water

----------------------------------------------------------------------------
(* addReminder / btnAddRem.onclick *)

\* the name the handler works with: p1 trims it, the others do not
SentName(v, n) == IF v = "p1" THEN Trim(n) ELSE n

\* the validation with && in place of ||
InvalidRem_And(v, n, t) == SentName(v, n) = "" /\ t = ""

\* if (!name || !time)
InvalidRem(v, n, t) == SentName(v, n) = "" \/ t = ""

\* does the handler call the list refresh once the create has answered?
\* p1 only inside if (data.ok); app/old/p2 on the line after the await
RefreshAfterAdd(v, ok) == IF v = "p1" THEN ok ELSE TRUE

\* the text a step of p1's addReminder writes to #reminderStatus; the other
\* versions have no status element
StatusText(v, txt) == IF v = "p1" THEN txt ELSE ""

\* the only try/catch around a reminder, note or water request in any
\* version is p1's addReminder
CatchesError(v, k) == v = "p1" /\ k = "addRem"

ClickAddRem(n, t) ==
    /\ IF InvalidRem(variant, n, t)
       THEN /\ UNCHANGED tasks
            /\ ev' = Event("addRejected", "addRem",
                           StatusText(variant, "Please enter name and time."),
                           FALSE)
       ELSE /\ HasFree
            /\ (nextId - 1) + PendingAdds("addRem") < MaxRem
            /\ tasks' = Start(Sent("addRem", 0, SentName(variant, n), t, {}))
            /\ ev' = Event("addSent", "addRem",
                           StatusText(variant, "Saving..."), FALSE)
    /\ UNCHANGED <<swVars, variant, hist, reminders, nextId, notes, remList, noteList,
                   deleteBtnDisabled, shapes, doneOK, failed, waterVars>>

\* backend: POST /api/reminder
ServeAddRem(t, ok) ==
    /\ t.kind = "addRem" /\ t.net = "sent"
    /\ IF ok
       THEN /\ reminders' = Append(reminders,
                    [id |-> nextId, name |-> t.name, time |-> t.time,
                     completed |-> FALSE])
            /\ nextId' = nextId + 1
       ELSE UNCHANGED <<reminders, nextId>>
    /\ tasks' = Become(t, Served(t, [NoResp EXCEPT !.ok = ok]))
    /\ failed' = (failed \/ ~ok)
    /\ ev' = Event("serve", "", "", FALSE)
    /\ UNCHANGED <<swVars, variant, hist, notes, remList, noteList, deleteBtnDisabled,
                   shapes, doneOK, waterVars>>

RecvAddRem(t) ==
    /\ t.kind = "addRem" /\ t.net = "served"
    /\ LET ok == t.resp.ok
           refresh == RefreshAfterAdd(variant, ok)
       IN  /\ tasks' = IF refresh THEN Become(t, LoadRem) ELSE End(t)
           /\ ev' = Event("addResolved", "addRem",
                          StatusText(variant,
                              IF ok THEN "Reminder added successfully"
                                    ELSE "Failed to add reminder."),
                          refresh)
    /\ UNCHANGED <<swVars, variant, hist, reminders, nextId, notes, remList, noteList,
                   deleteBtnDisabled, shapes, doneOK, failed, waterVars>>

----------------------------------------------------------------------------
(* the checkbox of a rendered entry / completeReminder(id) *)

\* does completeReminder call loadReminders() after its await?
CompleteRefreshes(v) == v = "p2"

\* a checkbox that asks to undo the completion when it is cleared
CheckboxRequest_Toggle(checked) == IF checked THEN "complete" ELSE "uncomplete"

\* onchange="completeReminder(${r.id})": the same request whether the box
\* has just been ticked or cleared
CheckboxRequest(checked) == "complete"

\* the user clicks the checkbox of entry i: the browser flips the box and
\* fires onchange="completeReminder(id)"
ClickCheckbox(i) ==
    /\ HasCheckbox(variant)
    /\ i \in 1..Len(remList)
    /\ HasFree
    /\ remList' = [remList EXCEPT ![i].completed = ~remList[i].completed]
    /\ tasks' = Start(Sent(CheckboxRequest(remList'[i].completed),
                            remList[i].id, "", "", {}))
    /\ ev' = Event("page", "", "", FALSE)
    /\ UNCHANGED <<swVars, variant, hist, reminders, nextId, notes, noteList,
                   deleteBtnDisabled, shapes, doneOK, failed, waterVars>>

\* backend: POST /api/reminder/{id}/complete
ServeComplete(t) ==
    /\ t.kind = "complete" /\ t.net = "sent"
    /\ LET known == \E i \in 1..Len(reminders) : reminders[i].id = t.arg
       IN  /\ reminders' = [i \in 1..Len(reminders) |->
                    IF reminders[i].id = t.arg
                    THEN [reminders[i] EXCEPT !.completed = TRUE]
                    ELSE reminders[i]]
           /\ tasks' = Become(t, Served(t, [NoResp EXCEPT !.ok = known]))
           /\ failed' = (failed \/ ~known)
    /\ ev' = Event("serve", "", "", FALSE)
    /\ UNCHANGED <<swVars, variant, hist, nextId, notes, remList, noteList,
                   deleteBtnDisabled, shapes, doneOK, waterVars>>

RecvComplete(t) ==
    /\ t.kind = "complete" /\ t.net = "served"
    /\ doneOK' = IF t.arg \in hist /\ t.resp.ok THEN doneOK \cup {t.arg} ELSE doneOK
    /\ LET refresh == CompleteRefreshes(variant)
       IN  /\ tasks' = IF refresh
                        THEN Become(t, Sent("loadRem", 0, "", "", doneOK'))
                        ELSE End(t)
           /\ ev' = Event("completeResolved", "complete", "", refresh)
    /\ UNCHANGED <<swVars, variant, hist, reminders, nextId, notes, remList, noteList,
                   deleteBtnDisabled, shapes, failed, waterVars>>

----------------------------------------------------------------------------
(* deleteCompletedReminders *)

ClickDelete ==
    /\ HasCheckbox(variant)
    /\ ~deleteBtnDisabled
    /\ HasFree
    /\ tasks' = Start(Sent("delete", 0, "", "", {}))
    /\ ev' = Event("page", "", "", FALSE)
    /\ UNCHANGED <<swVars, variant, hist, reminders, nextId, notes, remList, noteList,
                   deleteBtnDisabled, shapes, doneOK, failed, waterVars>>

\* backend: DELETE /api/reminders/completed
ServeDelete(t) ==
    /\ t.kind = "delete" /\ t.net = "sent"
    /\ reminders' = SelectSeq(reminders, LAMBDA r : ~r.completed)
    /\ tasks' = Become(t, Served(t, [NoResp EXCEPT !.ok = TRUE]))
    /\ ev' = Event("serve", "", "", FALSE)
    /\ UNCHANGED <<swVars, variant, hist, nextId, notes, remList, noteList,
                   deleteBtnDisabled, shapes, doneOK, failed, waterVars>>

RecvDelete(t) ==
    /\ t.kind = "delete" /\ t.net = "served"
    /\ tasks' = Become(t, LoadRem)
    /\ ev' = Event("page", "", "", FALSE)
    /\ UNCHANGED <<swVars, variant, hist, reminders, nextId, notes, remList, noteList,
                   deleteBtnDisabled, shapes, doneOK, failed, waterVars>>

----------------------------------------------------------------------------
(* loadReminders / refreshRem *)

\* backend: GET /api/reminders.  wellFormed = the body has a reminders field
ServeLoadRem(t, wellFormed) ==
    /\ t.kind = "loadRem" /\ t.net = "sent"
    /\ wellFormed \/ shapes
    /\ tasks' = Become(t, Served(t, [NoResp EXCEPT
                                     !.ok = wellFormed,
                                     !.list = IF wellFormed THEN reminders
                                                            ELSE <<>>]))
    /\ failed' = (failed \/ ~wellFormed)
    /\ ev' = Event("serve", "", "", FALSE)
    /\ UNCHANGED <<swVars, variant, hist, reminders, nextId, notes, remList, noteList,
                   deleteBtnDisabled, shapes, doneOK, waterVars>>

\* (r.reminders||[]) in app; r.reminders / data.reminders in old, p1, p2
TolerantList(v) == v = "app"

\* the response has arrived: the list element is emptied and rebuilt from
\* the response; p2 then sets the delete-completed control.  Without the
\* reminders field, app renders the empty list, and old/p1/p2 throw after
\* the list has been emptied (p2: before the control is set).
RecvLoadRem(t) ==
    /\ t.kind = "loadRem" /\ t.net = "served"
    /\ LET threw == ~t.resp.ok /\ ~TolerantList(variant)
       IN  /\ remList' = IF threw THEN <<>>
                      ELSE Replace(remList, RenderRem(variant, t.resp.list))
           /\ deleteBtnDisabled' = IF variant = "p2" /\ ~threw
                                    THEN BtnDisabled(t.resp.list)
                                    ELSE deleteBtnDisabled
           /\ ev' = [Event(IF threw THEN "loadThrew" ELSE "loadRendered",
                           "loadRem", "", FALSE)
                       EXCEPT !.ids = t.after]
    /\ tasks' = End(t)
    /\ UNCHANGED <<swVars, variant, hist, reminders, nextId, notes, noteList, shapes,
                   doneOK, failed, waterVars>>

----------------------------------------------------------------------------
(* btnAddNote.onclick / refreshNotes (app and old only) *)

ClickAddNote(txt) ==
    /\ ~HasCheckbox(variant)
    /\ IF Trim(txt) = ""
       THEN UNCHANGED tasks
       ELSE /\ HasFree
            /\ Len(notes) + PendingAdds("addNote") < MaxNotes
            /\ tasks' = Start(Sent("addNote", 0, Trim(txt), "", {}))
    /\ ev' = Event("page", "", "", FALSE)
    /\ UNCHANGED <<swVars, variant, hist, reminders, nextId, notes, remList, noteList,
                   deleteBtnDisabled, shapes, doneOK, failed, waterVars>>

\* backend: POST /api/notes
ServeAddNote(t) ==
    /\ t.kind = "addNote" /\ t.net = "sent"
    /\ notes' = Append(notes, t.name)
    /\ tasks' = Become(t, Served(t, [NoResp EXCEPT !.ok = TRUE]))
    /\ ev' = Event("serve", "", "", FALSE)
    /\ UNCHANGED <<swVars, variant, hist, reminders, nextId, remList, noteList,
                   deleteBtnDisabled, shapes, doneOK, failed, waterVars>>

RecvAddNote(t) ==
    /\ t.kind = "addNote" /\ t.net = "served"
    /\ tasks' = Become(t, LoadNotes)
    /\ ev' = Event("page", "", "", FALSE)
    /\ UNCHANGED <<swVars, variant, hist, reminders, nextId, notes, remList, noteList,
                   deleteBtnDisabled, shapes, doneOK, failed, waterVars>>

\* backend: GET /api/notes
ServeLoadNotes(t, wellFormed) ==
    /\ t.kind = "loadNotes" /\ t.net = "sent"
    /\ wellFormed \/ shapes
    /\ tasks' = Become(t, Served(t, [NoResp EXCEPT
                                     !.ok = wellFormed,
                                     !.list = IF wellFormed THEN notes
                                                            ELSE <<>>]))
    /\ failed' = (failed \/ ~wellFormed)
    /\ ev' = Event("serve", "", "", FALSE)
    /\ UNCHANGED <<swVars, variant, hist, reminders, nextId, notes, remList, noteList,
                   deleteBtnDisabled, shapes, doneOK, waterVars>>

RecvLoadNotes(t) ==
    /\ t.kind = "loadNotes" /\ t.net = "served"
    /\ LET threw == ~t.resp.ok /\ ~TolerantList(variant)
       IN  /\ noteList' = IF threw THEN <<>> ELSE Replace(noteList, t.resp.list)
           /\ ev' = Event(IF threw THEN "loadThrew" ELSE "loadRendered",
                          "loadNotes", "", FALSE)
    /\ tasks' = End(t)
    /\ UNCHANGED <<swVars, variant, hist, reminders, nextId, notes, remList,
                   deleteBtnDisabled, shapes, doneOK, failed, waterVars>>

----------------------------------------------------------------------------
(* A request or its response is lost: the handler's fetch() rejects.  Only *)
(* p1's addReminder has a catch; in every other handler the rejection      *)
(* leaves the async function at the await, and nothing after it runs.      *)
NetFail(t) ==
    /\ t.net \in {"sent", "served"}
    /\ remList' = IF t.kind = "loadRem" THEN ListAfterFailedFetch(remList)
                                        ELSE remList
    /\ noteList' = IF t.kind = "loadNotes" THEN ListAfterFailedFetch(noteList)
                                           ELSE noteList
    /\ ev' = Event("netFail", t.kind,
                   IF CatchesError(variant, t.kind) THEN "Server error." ELSE "",
                   FALSE)
    /\ tasks' = End(t)
    /\ failed' = TRUE
    /\ UNCHANGED <<swVars, variant, hist, reminders, nextId, notes, deleteBtnDisabled,
                   shapes, doneOK, waterVars>>

----------------------------------------------------------------------------
(* Water count: btnAddWater.onclick and the init block of app/old,         *)
(* addWater / loadWater of p1 and p2                                       *)

\* app and old read the count, add one and post the total; p1 and p2 post
\* with no body and show the count the backend answers
ReadThenWrite(v) == v \in {"app", "old"}

\* the total without the increment
NewCount_NoInc(cur) == cur

\* let count = (cur.count || 0) + 1
NewCount(cur) == cur + 1

\* the increment posted with a client-side total in every version
WaterPost_WithBody(v, count) == <<TRUE, count>>

\* the increment posted without its body
WaterPost_NoBody(v, count) == <<FALSE, 0>>

\* what the increment's POST carries: <<TRUE, total>> for body {date, count},
\* <<FALSE, 0>> for a POST without body
WaterPost(v, count) == IF ReadThenWrite(v) THEN <<TRUE, count>> ELSE <<FALSE, 0>>

IsInc(t) == t.kind \in {"addWaterGet", "addWaterPost", "addWater"}

ClickAddWater ==
    /\ HasFree
    /\ nInc < MaxInc
    /\ tasks' = Start(IF ReadThenWrite(variant)
                      THEN Sent("addWaterGet", 0, "", "", {})
                      ELSE Sent("addWater", 0, "", "", {}))
    /\ nInc' = nInc + 1
    /\ overlap' = (overlap \/ \E t \in InFlight : IsInc(t))
    /\ ev' = Event("page", "", "", FALSE)
    /\ UNCHANGED <<swVars, variant, hist, shapes, failed, remVars, water, waterCount, w0,
                   nDone, incReads>>

\* backend: GET /api/water
ServeWaterGet(t) ==
    /\ t.kind \in {"loadWater", "addWaterGet"} /\ t.net = "sent"
    /\ tasks' = Become(t, Served(t, [NoResp EXCEPT !.ok = TRUE, !.count = water]))
    /\ incReads' = IF t.kind = "addWaterGet" THEN Append(incReads, water)
                                             ELSE incReads
    /\ ev' = Event("serve", "", "", FALSE)
    /\ UNCHANGED <<swVars, variant, hist, shapes, failed, remVars, water, waterCount, w0,
                   nInc, nDone, overlap>>

\* the read of a read-then-write increment has answered: the POST of the
\* new total is issued
RecvWaterRead(t) ==
    /\ t.kind = "addWaterGet" /\ t.net = "served"
    /\ tasks' = Become(t, Sent("addWaterPost", NewCount(t.resp.count), "", "", {}))
    /\ ev' = Event("page", "", "", FALSE)
    /\ UNCHANGED <<swVars, variant, hist, shapes, failed, remVars, waterVars>>

\* backend: POST /api/water: a body {date, count} stores count, no body adds
\* one; the answer carries the stored count
ServeWaterPost(t) ==
    /\ t.kind \in {"addWaterPost", "addWater"}
    /\ t.net = "sent"
    /\ LET body == WaterPost(variant, t.arg)
       IN  water' = IF body[1] THEN body[2] ELSE water + 1
    /\ tasks' = Become(t, Served(t, [NoResp EXCEPT !.ok = TRUE, !.count = water']))
    /\ ev' = Event("serve", "", "", FALSE)
    /\ UNCHANGED <<swVars, variant, hist, shapes, failed, remVars, waterCount, w0, nInc,
                   nDone, overlap, incReads>>

\* the increment's POST has answered: app/old show the total they posted,
\* p1/p2 show the count of the answer
RecvWaterPost(t) ==
    /\ t.kind \in {"addWaterPost", "addWater"}
    /\ t.net = "served"
    /\ waterCount' = IF ReadThenWrite(variant) THEN t.arg ELSE t.resp.count
    /\ nDone' = nDone + 1
    /\ tasks' = End(t)
    /\ ev' = Event("waterAdded", "addWater", "", FALSE)
    /\ UNCHANGED <<swVars, variant, hist, shapes, failed, remVars, water, w0, nInc, overlap,
                   incReads>>

\* the init block / loadWater has its answer
RecvLoadWater(t) ==
    /\ t.kind = "loadWater" /\ t.net = "served"
    /\ waterCount' = t.resp.count
    /\ tasks' = End(t)
    /\ ev' = Event("waterLoaded", "loadWater", "", FALSE)
    /\ UNCHANGED <<swVars, variant, hist, shapes, failed, remVars, water, w0, nInc, nDone,
                   overlap, incReads>>

----------------------------------------------------------------------------
(* The offline fallback worker (static/service-worker.js).  A request the  *)
(* page issues is handed to the worker as a fetch event once the worker is *)
(* active; the network attempt and the cache lookup resolve later, each in *)
(* a step of its own.                                                      *)

\* the requests the page issues: two GETs and a POST
Requests == {"g1", "g2", "post"}

\* Cache Storage holds GET requests only: put() refuses any other method
\* and match() never matches one
IsGet(r) == r # "post"

Response(r, v) == [key |-> r, ver |-> v]

\* no Response: what caches.match resolves to when nothing matches
None == Response("", 0 - 1)

NoSwEv == [op |-> "init", req |-> "", net |-> "", consulted |-> FALSE,
           delivered |-> "", value |-> None]

\* addEventListener('fetch', ...) at lines 3 and 13
NumFetchListeners == 2

\* a listener that runs although an earlier one has already responded
FetchListener_NoStop(e) ==
    [attempts |-> e.attempts + 1, responds |-> e.responds + 1,
     stopped |-> TRUE]

\* one fetch listener runs on the event: it evaluates fetch(e.request), one
\* network attempt, and calls e.respondWith, which sets the event's stop
\* immediate propagation flag; a listener after that is not invoked
FetchListener(e) ==
    IF e.stopped THEN e
    ELSE [attempts |-> e.attempts + 1, responds |-> e.responds + 1,
          stopped |-> TRUE]

\* the event dispatched to the first n registered listeners in order
RECURSIVE DispatchTo(_, _)
DispatchTo(n, e) ==
    IF n = 0 THEN e ELSE FetchListener(DispatchTo(n - 1, e))

Dispatched ==
    DispatchTo(NumFetchListeners,
               [attempts |-> 0, responds |-> 0, stopped |-> FALSE])

\* the fallback taken on every outcome of the network attempt
AfterNetwork_Always(ok) == "match"

\* fetch(e.request).catch(...): the callback runs only when the fetch
\* rejected; a fulfilled fetch passes its response through
AfterNetwork(ok) == IF ok THEN "deliver" ELSE "match"

\* caches.match(e.request)
CacheLookup(c, r) == IF IsGet(r) THEN c[r] ELSE None

\* whatever the promise resolved to is handed to the page
RespondWith_Anything(v) == "deliver"

\* e.respondWith(p) once p has resolved to v: a Response goes to the page,
\* anything else (undefined) is a network error, and the page's fetch rejects
RespondWith(v) == IF v = None THEN "error" ELSE "deliver"

\* a fetch listener that stores the network response
CacheAfterFetch_Put(c, r, resp) == IF IsGet(r) THEN [c EXCEPT ![r] = resp] ELSE c

\* the cache after a listener has had the network's response: no listener
\* opens a cache or calls put/add
CacheAfterFetch(c, r, resp) == c

\* install: both listeners call self.skipWaiting(), so the worker does not
\* wait for pages of an older worker to close
Install ==
    /\ swState = "installing"
    /\ swState' = "installed"
    /\ swEv' = [NoSwEv EXCEPT !.op = "install"]
    /\ UNCHANGED <<pageVars, cache, srvVer, swReqs>>

\* activate: both listeners call clients.claim(), so the open page is
\* controlled from now on
Activate ==
    /\ swState = "installed"
    /\ swState' = "active"
    /\ swEv' = [NoSwEv EXCEPT !.op = "activate"]
    /\ UNCHANGED <<pageVars, cache, srvVer, swReqs>>

\* the page issues request r; the fetch event runs the listeners
Intercept(r) ==
    /\ swState = "active"
    /\ BagCardinality(swReqs) < MaxFetch
    /\ LET e == Dispatched
       IN  swReqs' = swReqs (+) SetToBag({[req |-> r, stage |-> "net",
                                           attempts |-> e.attempts,
                                           responds |-> e.responds]})
    /\ swEv' = [NoSwEv EXCEPT !.op = "fetch", !.req = r]
    /\ UNCHANGED <<pageVars, swState, cache, srvVer>>

\* the network attempt of q resolves: ok = the backend answered
Network(q, ok) ==
    /\ q.stage = "net"
    /\ LET resp == Response(q.req, srvVer)
       IN  IF AfterNetwork(ok) = "deliver"
           THEN /\ swReqs' = swReqs (-) SetToBag({q})
                /\ cache' = IF ok THEN CacheAfterFetch(cache, q.req, resp)
                                  ELSE cache
                /\ swEv' = [op |-> "answered", req |-> q.req,
                            net |-> IF ok THEN "ok" ELSE "failed",
                            consulted |-> FALSE,
                            delivered |-> "network", value |-> resp]
           ELSE /\ swReqs' = (swReqs (-) SetToBag({q})) (+)
                        SetToBag({[q EXCEPT !.stage =
                                      IF ok THEN "matchOk" ELSE "match"]})
                /\ cache' = IF ok THEN CacheAfterFetch(cache, q.req, resp)
                                  ELSE cache
                /\ swEv' = [NoSwEv EXCEPT !.op = "fallback", !.req = q.req]
    /\ UNCHANGED <<pageVars, swState, srvVer>>

\* caches.match of q resolves and with it the promise given to respondWith
Match(q) ==
    /\ q.stage \in {"match", "matchOk"}
    /\ LET v == CacheLookup(cache, q.req)
       IN  swEv' = [op |-> "answered", req |-> q.req,
                    net |-> IF q.stage = "matchOk" THEN "ok" ELSE "failed",
                    consulted |-> TRUE,
                    delivered |-> IF RespondWith(v) = "deliver" THEN "cache"
                                                                ELSE "error",
                    value |-> v]
    /\ swReqs' = swReqs (-) SetToBag({q})
    /\ UNCHANGED <<pageVars, swState, cache, srvVer>>

\* the backend's content changes
ServerChange ==
    /\ srvVer < MaxVer
    /\ srvVer' = srvVer + 1
    /\ swEv' = [NoSwEv EXCEPT !.op = "change"]
    /\ UNCHANGED <<pageVars, swState, cache, swReqs>>

----------------------------------------------------------------------------
Next ==
    \/ \E n \in Names, t \in Times : ClickAddRem(n, t)
    \/ \E t \in InFlight, ok \in BOOLEAN : ServeAddRem(t, ok)
    \/ \E t \in InFlight : RecvAddRem(t)
    \/ \E i \in 1..MaxRem : ClickCheckbox(i)
    \/ \E t \in InFlight : ServeComplete(t)
    \/ \E t \in InFlight : RecvComplete(t)
    \/ ClickDelete
    \/ \E t \in InFlight : ServeDelete(t)
    \/ \E t \in InFlight : RecvDelete(t)
    \/ \E t \in InFlight, wf \in BOOLEAN : ServeLoadRem(t, wf)
    \/ \E t \in InFlight : RecvLoadRem(t)
    \/ \E txt \in NoteTexts : ClickAddNote(txt)
    \/ \E t \in InFlight : ServeAddNote(t)
    \/ \E t \in InFlight : RecvAddNote(t)
    \/ \E t \in InFlight, wf \in BOOLEAN : ServeLoadNotes(t, wf)
    \/ \E t \in InFlight : RecvLoadNotes(t)
    \/ \E t \in InFlight : NetFail(t)

Spec == Init /\ [][Next]_vars

NextRem ==
    \/ \E n \in Names, t \in Times : ClickAddRem(n, t)
    \/ \E t \in InFlight, ok \in BOOLEAN : ServeAddRem(t, ok)
    \/ \E t \in InFlight : RecvAddRem(t)
    \/ \E i \in 1..MaxRem : ClickCheckbox(i)
    \/ \E t \in InFlight : ServeComplete(t)
    \/ \E t \in InFlight : RecvComplete(t)
    \/ ClickDelete
    \/ \E t \in InFlight : ServeDelete(t)
    \/ \E t \in InFlight : RecvDelete(t)
    \/ \E t \in InFlight, wf \in BOOLEAN : ServeLoadRem(t, wf)
    \/ \E t \in InFlight : RecvLoadRem(t)
    \/ \E t \in InFlight : NetFail(t)

SpecHist == InitHist /\ [][NextRem]_vars

NextWater ==
    \/ ClickAddWater
    \/ \E t \in InFlight : ServeWaterGet(t)
    \/ \E t \in InFlight : RecvWaterRead(t)
    \/ \E t \in InFlight : ServeWaterPost(t)
    \/ \E t \in InFlight : RecvWaterPost(t)
    \/ \E t \in InFlight : RecvLoadWater(t)
    \/ \E t \in InFlight : NetFail(t)

SpecWater == InitWater /\ [][NextWater]_vars

\* the list handlers against a backend whose list answers may lack the
\* list field
InitShapes ==
    /\ Blank /\ NoWorker /\ shapes = TRUE
    /\ variant \in Variants
    /\ hist = {}
    /\ tasks = FirstListReads(variant)
    /\ water = 0 /\ w0 = 0

SpecShapes == InitShapes /\ [][Next]_vars

\* the worker has been registered and its script evaluated; what Cache
\* Storage holds was put there by something else, earlier: for each GET
\* either nothing or a response of the first version
InitSW ==
    /\ Blank /\ shapes = FALSE
    /\ variant = "app" /\ hist = {} /\ tasks = EmptyBag
    /\ water = 0 /\ w0 = 0
    /\ swState = "installing"
    /\ \E S \in SUBSET Requests :
           cache = [r \in {x \in Requests : IsGet(x)} |->
                        IF r \in S THEN Response(r, 0) ELSE None]
    /\ srvVer = 0
    /\ swReqs = EmptyBag
    /\ swEv = NoSwEv

NextSW ==
    \/ Install
    \/ Activate
    \/ \E r \in Requests : Intercept(r)
    \/ \E q \in BagToSet(swReqs), ok \in BOOLEAN : Network(q, ok)
    \/ \E q \in BagToSet(swReqs) : Match(q)
    \/ ServerChange

SpecSW == InitSW /\ [][NextSW]_vars

----------------------------------------------------------------------------
(* Properties *)

OnServer(id) == \E i \in 1..Len(reminders) : reminders[i].id = id
Shown(id) == \E i \in 1..Len(remList) : remList[i].id = id
ShownCompleted(id) ==
    \E i \in 1..Len(remList) : remList[i].id = id /\ remList[i].completed

RenderedRem == ev.op = "loadRendered" /\ ev.kind = "loadRem"

\* C1: after every completed reminder refresh of a version that has the
\* delete-completed control, the control is enabled if and only if the
\* rendered list is non-empty and has a completed entry.
C1_DeleteControlMatchesList ==
    (RenderedRem /\ HasCheckbox(variant)) =>
        (~deleteBtnDisabled <=> (Len(remList) > 0 /\ HasCompleted(remList)))

\* C2: an add-reminder click with the name field or the time field empty
\* issues no request and leaves the rendered reminder list as it was.
C2_EmptyFieldNoRequest ==
    [][\A n \in Names, t \in Times :
          ((n = "" \/ t = "") /\ ClickAddRem(n, t))
              => (tasks' = tasks /\ remList' = remList)]_vars

C2_Witness ==
    /\ ev.op = "addRejected"
    /\ Len(remList) > 0 /\ tasks # EmptyBag

\* C3: read-then-write increments that all read the same count C (each read
\* its count before any of them wrote) leave, once all have resolved, the
\* backend and the page at C + 1, however many they were: updates are lost.
AllReadStart ==
    /\ ReadThenWrite(variant)
    /\ nInc >= 2 /\ nDone = nInc /\ Len(incReads) = nInc
    /\ \A i \in 1..Len(incReads) : incReads[i] = w0
    /\ ev.op = "waterAdded"

C3_LostUpdate == AllReadStart => (water = w0 + 1 /\ waterCount = w0 + 1)

C3_Witness == AllReadStart /\ nDone = 2 /\ water = w0 + 1 /\ waterCount = w0 + 1

\* C4: when the increments ran one after another without a failure, the
\* backend holds C + N once N of them have resolved, and the step that
\* resolves the N-th shows C + N; with N = 0 the page load shows C.
C4_SequentialIncrements ==
    /\ (~overlap /\ ~failed /\ nDone = nInc) => water = w0 + nDone
    /\ (~overlap /\ ~failed /\ ev.op = "waterAdded") =>
           (nDone = nInc /\ waterCount = w0 + nDone)
    /\ (~failed /\ nInc = 0 /\ ev.op = "waterLoaded") => waterCount = w0

C4_Witness ==
    /\ ~overlap /\ ~failed /\ ev.op = "waterAdded"
    /\ nDone = 2 /\ water = w0 + 2 /\ waterCount = w0 + 2 /\ w0 = 1

\* C5 as stated: a refresh issued after completeReminder(id) has succeeded
\* renders id with completed = true.
C5_Original ==
    RenderedRem => \A id \in ev.ids : ShownCompleted(id)

\* C5 amended: a refresh issued after completeReminder(id) has succeeded
\* and that renders its response shows id with completed = true, or does not
\* show it at all, and then a delete-completed request has removed it from
\* the backend; it never shows id unchecked.
C5_Amended ==
    RenderedRem =>
        \A id \in ev.ids :
            \/ ShownCompleted(id)
            \/ ~Shown(id) /\ ~OnServer(id) /\ id < nextId

C5_Witness ==
    /\ RenderedRem /\ variant = "p2"
    /\ \E id \in ev.ids : ShownCompleted(id)

\* C6: a list refresh whose fetch fails leaves the rendered reminder list
\* and the rendered note list exactly as they were.
C6_FailedRefreshKeepsList ==
    [][(ev'.op = "netFail" /\ ev'.kind \in {"loadRem", "loadNotes"})
          => (remList' = remList /\ noteList' = noteList)]_vars

C6_Witness ==
    /\ ev.op = "netFail" /\ ev.kind = "loadNotes"
    /\ noteList # <<>> /\ remList # <<>>

\* C7: every network failure of a handler ends with an error message shown.
C7_EveryFailureShowsMessage == ev.op = "netFail" => ev.msg # ""

\* C8: every addReminder that issued its create request calls the list
\* refresh, whether the create succeeded, was refused or failed in transit.
C8_AddAlwaysRefreshes ==
    (ev.kind = "addRem" /\ ev.op \in {"addResolved", "netFail"}) => ev.refresh

\* C9: every completeReminder(id) issues the refresh once its request has
\* been answered, and never omits it.
C9_CompleteThenRefresh ==
    (ev.kind = "complete" /\ ev.op \in {"completeResolved", "netFail"})
        => ev.refresh

\* C10: when no request is in flight and no request has failed, the rendered
\* reminder list is the backend's reminder collection.
C10_ViewEqualsServer ==
    (Quiescent /\ ~failed) => remList = RenderRem(variant, reminders)

\* C11: no step lowers the count the backend stores: the client never writes
\* a total below the one the backend holds.
C11_WaterNeverDecreases == [][water' >= water]_vars

\* C12: under the server-side-increment pattern (p1, p2), once all K started
\* increments have resolved and none has failed, the backend holds C + K,
\* whatever their interleaving.
C12_NoLostIncrement ==
    (~ReadThenWrite(variant) /\ ~failed /\ nDone = nInc) => water = w0 + nInc

C12_Witness ==
    /\ ~ReadThenWrite(variant) /\ ~failed /\ overlap
    /\ nInc = 3 /\ nDone = 3 /\ water = w0 + 3

Answered == swEv.op = "answered"

\* C13: of every answered request the network attempt came first; when it
\* succeeded the page got the network's response and the cache was not
\* consulted; a cached response was delivered only after the network attempt
\* of that request had failed, and it is the cache's entry for that request.
C13_NetworkFirst ==
    Answered =>
        /\ swEv.consulted => swEv.net = "failed"
        /\ swEv.net = "ok" =>
               /\ swEv.delivered = "network" /\ ~swEv.consulted
               /\ swEv.value = Response(swEv.req, srvVer)
        /\ swEv.delivered = "cache" =>
               /\ swEv.net = "failed" /\ IsGet(swEv.req)
               /\ swEv.value = cache[swEv.req]
               /\ swEv.value.key = swEv.req

C13_Witness ==
    /\ Answered /\ swEv.delivered = "cache" /\ swEv.req = "g2"
    /\ srvVer = 1 /\ swEv.value = Response("g2", 0)

\* C14: when the network attempt failed and the cache has no entry for the
\* request, the page's fetch fails: nothing is delivered as a response.
C14_NoNetworkNoCacheFails ==
    (/\ Answered /\ swEv.net = "failed"
     /\ (IsGet(swEv.req) => cache[swEv.req] = None))
        => (swEv.delivered = "error" /\ swEv.value = None)

C14_Witness ==
    /\ Answered /\ swEv.net = "failed" /\ swEv.req = "g1"
    /\ cache["g1"] = None /\ cache["g2"] # None /\ swEv.delivered = "error"

\* C15: once the network attempt of an intercepted GET has succeeded, the
\* cache entry of that request holds the response just received.
C15_CacheHoldsLastSuccess ==
    (Answered /\ swEv.net = "ok" /\ IsGet(swEv.req))
        => cache[swEv.req] = swEv.value

\* C16: no step of the worker (install, activate, a fetch event, the
\* network attempt or the cache lookup resolving) changes the cache.
C16_WorkerNeverWritesCache == [][cache' = cache]_vars

C16_Witness ==
    /\ swState = "active" /\ Answered /\ swEv.net = "ok"
    /\ swEv.req = "g1" /\ swEv.value = Response("g1", 1)
    /\ cache["g1"] = Response("g1", 0)

\* C17: a list handler that receives an answer without its list field
\* raises no error and renders the empty list.
C17_MalformedUsesDefault ==
    [][\A t \in InFlight :
          (t.net = "served" /\ ~t.resp.ok) =>
              /\ (t.kind = "loadRem" /\ RecvLoadRem(t)) =>
                     (ev'.op = "loadRendered" /\ remList' = <<>>)
              /\ (t.kind = "loadNotes" /\ RecvLoadNotes(t)) =>
                     (ev'.op = "loadRendered" /\ noteList' = <<>>)]_vars

\* C18: whenever a reminder list response arrives, the list rendered is the
\* content of that response, whatever was rendered from another response
\* before and whatever the backend holds by then: of two refreshes in flight
\* together, the one answered last decides the list.
C18_LastResponseWins ==
    [][\A t \in InFlight :
          (t.kind = "loadRem" /\ t.net = "served" /\ RecvLoadRem(t))
              => remList' = RenderRem(variant, t.resp.list)]_vars

\* an older answer arrived last: nothing in flight, nothing failed, and the
\* list just rendered is not what the backend holds
C18_Witness ==
    /\ RenderedRem /\ Quiescent /\ ~failed /\ variant = "p2"
    /\ remList # RenderRem(variant, reminders)

\* the step renders the answer of a reminder / note list request, whole
RendersRemResponse ==
    \E t \in InFlight : /\ t.kind = "loadRem" /\ RecvLoadRem(t)
                        /\ remList' = RenderRem(variant, t.resp.list)
RendersNoteResponse ==
    \E t \in InFlight : /\ t.kind = "loadNotes" /\ RecvLoadNotes(t)
                        /\ noteList' = t.resp.list

\* the step is the user's click on one checkbox, which flips that box
FlipsOneBox ==
    \E i \in 1..Len(remList) :
        /\ ClickCheckbox(i)
        /\ remList' = [remList EXCEPT ![i].completed = ~remList[i].completed]

\* C19 as stated: every step that changes a rendered list replaces it by the
\* complete content of one list response.
C19_Original ==
    [][/\ remList' # remList => RendersRemResponse
       /\ noteList' # noteList => RendersNoteResponse]_vars

\* C19 amended: every step that changes a rendered list replaces it by the
\* complete content of one list response, except the user's click on a
\* checkbox, which flips the checked state of that one entry.
C19_Amended ==
    [][/\ remList' # remList => (RendersRemResponse \/ FlipsOneBox)
       /\ noteList' # noteList => RendersNoteResponse]_vars

C19_Witness ==
    /\ ev.op = "loadRendered" /\ ev.kind = "loadNotes"
    /\ noteList = notes /\ Len(noteList) > 0 /\ Len(remList) > 0

\* C20: the requests in flight are creates, list reads, 'complete id' and
\* 'delete all completed' only; no step takes a completed reminder back to
\* not completed, and no step removes a reminder that is not completed.
C20_CompletedMonotonic ==
    [][/\ \A t \in BagToSet(tasks') :
              t.kind \in {"addRem", "loadRem", "addNote", "loadNotes",
                          "complete", "delete"}
       /\ \A i \in 1..Len(reminders) :
              LET r == reminders[i]
                  kept == {j \in 1..Len(reminders') : reminders'[j].id = r.id}
              IN  /\ r.completed => \A j \in kept : reminders'[j].completed
                  /\ ~r.completed => kept # {}]_vars

\* the checkbox of a completed reminder was cleared and the request it sent
\* has been served: the reminder is still completed
C20_Witness ==
    /\ variant = "p2"
    /\ \E t \in InFlight :
           /\ t.kind = "complete" /\ t.net = "served"
           /\ \E i \in 1..Len(reminders) :
                  reminders[i].id = t.arg /\ reminders[i].completed
           /\ \E i \in 1..Len(remList) :
                  remList[i].id = t.arg /\ ~remList[i].completed

\* C21: under the server-side-increment pattern (p1, p2), when no water
\* request is in flight and none has failed, the count shown is the count
\* the backend holds.
C21_WaterViewEqualsServer ==
    (~ReadThenWrite(variant) /\ Quiescent /\ ~failed) => waterCount = water

\* C22: for every intercepted request the listeners together make exactly
\* one network attempt and call respondWith exactly once, a POST included.
C22_OneAttemptPerRequest ==
    \A q \in BagToSet(swReqs) : q.attempts = 1 /\ q.responds = 1

\* two page requests being answered at once, a POST among them, each with
\* its own single attempt
C22_Witness ==
    /\ BagCardinality(swReqs) = 2
    /\ \E q \in BagToSet(swReqs) :
           q.req = "post" /\ q.stage = "net" /\ q.attempts = 1
    /\ \E q \in BagToSet(swReqs) : q.req = "g1" /\ q.responds = 1

====
